---- MODULE Spec2Model ----
(***************************************************************************)
(* A model of dupe-linker.py: one directory of files, the SQLite index     *)
(* `files`, the pool of hash workers and the main thread's commit loop of  *)
(* process_files, over several invocations of the program.                 *)
(***************************************************************************)
EXTENDS Integers, Sequences, FiniteSets, TLC

(* ------------------------------ bounds --------------------------------- *)

\* Invocations of the program (calls of process_files) in one behaviour.
MaxRuns == 2

\* Changes made to the directory by something other than the program.
MaxFaults == 1

\* Inserts another invocation of the program has pending on the same index.
MaxPeer == 1

(* ------------------------------ the files ------------------------------ *)

\* A file name is <<stem, extension>>: os.path.splitext(file) of line 96.
Candidates == {<<"a", ".bin">>, <<"b", ".bin">>, <<"c", ".bin">>}
Other == <<"d", ".txt">>
Files == Candidates \cup {Other}

\* The -d argument: the same directory named absolutely, or relatively from a
\* working directory that is its parent.
Roots == {"/abs", "rel"}

\* The -e argument of the run.
extensions == {".bin"}

\* File contents are byte strings; <<>> is the zero-length file.
InitContents == {<<1>>, <<2, 2>>}

NoPath == <<"", <<"", "">>>>
NoHash == -1

File(c) == [kind |-> "file", content |-> c, target |-> NoPath]
Link(t) == [kind |-> "link", content |-> <<>>, target |-> t]
Absent == [kind |-> "none", content |-> <<>>, target |-> NoPath]

\* os.path.join(root, file), and the file a path names from the working directory.
join(dir, file) == <<dir, file>>
basename(path) == path[2]
FileOf(path) == path[2]
splitext(file) == file[2]

VARIABLES
    fs,             \* the directory: file name -> File / Link / Absent
    db,             \* the rows of table `files`, in rowid order
    dry_run,        \* global dry_run
    root,           \* the `directory` argument of the current run
    pc,             \* "idle", "running", "done" (statistics printed), "aborted",
                    \* "killed" (the process was interrupted)
    exc,            \* the exception that ended an aborted run
    file_paths,     \* the paths traverse_directory yielded
    stage,          \* per path: where its future / its loop iteration is
    hash,           \* per path: the digest its future holds
    result,         \* per path: what lookup_hash returned (<<>> is None)
    total_savings,
    out,            \* the lines printed by the current run
    runs,           \* invocations so far
    faults,         \* outside changes so far
    start,          \* fs and db when the current run began
    prev,           \* how the previous run went
    twin,           \* the same results processed in the other mode
    peer            \* inserts another invocation has decided on

vars == <<fs, db, dry_run, root, pc, exc, file_paths, stage, hash, result,
          total_savings, out, runs, faults, start, prev, twin, peer>>

(* --------------------------- the file system --------------------------- *)

\* What the path leads to when opened: a link whose target is a relative path
\* is resolved from the directory that holds the link, where no such entry is.
RECURSIVE Follow(_, _, _)
Follow(dir, e, n) ==
    IF e.kind # "link" THEN e
    ELSE IF n = 0 \/ e.target[1] # "/abs" THEN Absent
    ELSE Follow(dir, dir[FileOf(e.target)], n - 1)

Open(dir, path) == Follow(dir, dir[FileOf(path)], Cardinality(Files))

islink(dir, path) == dir[FileOf(path)].kind = "link"
exists(dir, path) == Open(dir, path).kind = "file"
getsize(dir, path) == Len(Open(dir, path).content)

os_remove(dir, path) == [dir EXCEPT ![FileOf(path)] = Absent]
os_symlink_Swapped(dir, src, dst) == [dir EXCEPT ![FileOf(src)] = Link(dst)]
os_symlink(dir, src, dst) == [dir EXCEPT ![FileOf(dst)] = Link(src)]

(* ------------------------------ hashing -------------------------------- *)

\* hashlib's update over the bytes read, an injective fold of the content.
RECURSIVE hexdigest(_)
hexdigest(bytes) ==
    IF bytes = <<>> THEN 0
    ELSE 3 * hexdigest(SubSeq(bytes, 1, Len(bytes) - 1)) + bytes[Len(bytes)]

(* ------------------------------ the index ------------------------------ *)

Row(i, path, h) == [id |-> i, filename |-> basename(path), path |-> path, sha256 |-> h]

Digests(rows) == {rows[i].sha256 : i \in DOMAIN rows}

\* sha256 TEXT NOT NULL UNIQUE
UniqueViolation_Dropped(rows, h) == FALSE
UniqueViolation(rows, h) == h \in Digests(rows)

\* SELECT ... WHERE sha256=?, fetchone(): <<>> stands for None.
lookup_hash_AnyRow(rows, h) == IF rows # <<>> THEN <<rows[1]>> ELSE <<>>
lookup_hash(rows, h) ==
    IF h \in Digests(rows)
    THEN LET i == CHOOSE j \in DOMAIN rows :
                    /\ rows[j].sha256 = h
                    /\ \A k \in DOMAIN rows : rows[k].sha256 = h => j <= k
         IN <<rows[i]>>
    ELSE <<>>

\* INSERT and commit, for a digest the constraint admits.
save_hash_NoInsert(rows, file_path, h) == rows
save_hash(rows, file_path, h) == Append(rows, Row(Len(rows) + 1, file_path, h))

(* ------------------------------ scanning ------------------------------- *)

traverse_directory_Unfiltered(dir, directory, exts) ==
    {join(directory, f) : f \in {g \in Files :
        /\ dir[g].kind # "none"
        /\ splitext(g) \in exts}}

\* Lines 93-103.
traverse_directory(dir, directory, exts) ==
    {join(directory, f) : f \in {g \in Files :
        /\ dir[g].kind # "none"
        /\ splitext(g) \in exts
        /\ ~islink(dir, join(directory, g))
        /\ getsize(dir, join(directory, g)) # 0}}

(* --------------------------- process_files ----------------------------- *)

\* Where a path's future, and then its iteration of the loop of line 115, stands.
\*   "queued"   submitted (line 114), not hashed yet
\*   "hashed"   calculate_file_hash returned; "failed": it raised
\*   "looked"   line 118 done, result[p] holds the row or None
\*   "remove"   line 124 printed, os.remove is next
\*   "symlink"  os.remove done, os.symlink is next
\*   "final"    the iteration is over
Critical == {"looked", "remove", "symlink"}

Msg(k, path, tgt, n) == [kind |-> k, path |-> path, target |-> tgt, bytes |-> n]

\* The (duplicate, canonical) pairs of the lines 124 and 129 among the lines printed.
Pairs(lines) ==
    {<<lines[k].path, lines[k].target>> :
        k \in {j \in DOMAIN lines : lines[j].kind \in {"symlinking", "can_be_symlinked"}}}

\* The loop body runs in the one thread that iterates as_completed: the next
\* result is taken only when the iteration before it is over.
MainThreadFree_Unserialized == TRUE
MainThreadFree == \A q \in file_paths : stage[q] \notin Critical

\* Lines 119, 130, 134.
Branch_NoSameCase(res, file_path) ==
    IF res # <<>> THEN "duplicate" ELSE "new"
Branch(res, file_path) ==
    IF res # <<>> /\ res[1].path # file_path THEN "duplicate"
    ELSE IF res # <<>> /\ res[1].path = file_path THEN "same"
    ELSE "new"

\* Line 123.
Live_Always(flag) == TRUE
Live(flag) == flag = FALSE

\* Line 122.
Accumulate_Overwrite(total, n) == n
Accumulate(total, n) == total + n

\* One whole iteration of the loop body on a world w = [db, fs, total] that
\* nothing else touches.
Iteration(w, file_path, h, flag) ==
    LET res == lookup_hash(w.db, h)
        b == Branch(res, file_path)
    IN  CASE b = "duplicate" ->
               [db |-> w.db,
                fs |-> IF Live(flag)
                       THEN os_symlink(os_remove(w.fs, file_path), res[1].path, file_path)
                       ELSE w.fs,
                total |-> Accumulate(w.total, getsize(w.fs, file_path))]
          [] b = "same" -> w
          [] OTHER ->
               [db |-> IF UniqueViolation(w.db, h) THEN w.db
                       ELSE save_hash(w.db, file_path, h),
                fs |-> w.fs,
                total |-> w.total]

\* Lines 110-114: scan, connect, submit one future per path.
StartRun(flag, directory) ==
    /\ pc \in {"idle", "done", "aborted", "killed"}
    /\ runs < MaxRuns
    /\ runs' = runs + 1
    /\ dry_run' = flag
    /\ root' = directory
    /\ file_paths' = traverse_directory(fs, directory, extensions)
    /\ stage' = [p \in file_paths' |-> "queued"]
    /\ hash' = [p \in file_paths' |-> NoHash]
    /\ result' = [p \in file_paths' |-> <<>>]
    /\ total_savings' = 0
    /\ out' = <<>>
    /\ pc' = "running"
    /\ exc' = ""
    /\ start' = [db |-> db, fs |-> fs]
    /\ twin' = [db |-> db, fs |-> fs, total |-> 0]
    /\ prev' = [pc |-> pc, dry |-> dry_run, root |-> root,
                 pairs |-> Pairs(out), total |-> total_savings]
    /\ UNCHANGED <<fs, db, faults, peer>>

\* Lines 79-87, run by a worker of the pool. The pool starts the futures in
\* the order of the list and os.walk fixes no order, so any future may finish
\* next; a worker touches neither the index nor the directory.
calculate_file_hash(p) ==
    /\ pc = "running"
    /\ stage[p] = "queued"
    /\ IF exists(fs, p)
       THEN /\ hash' = [hash EXCEPT ![p] = hexdigest(Open(fs, p).content)]
            /\ stage' = [stage EXCEPT ![p] = "hashed"]
       ELSE /\ stage' = [stage EXCEPT ![p] = "failed"]
            /\ UNCHANGED hash
    /\ UNCHANGED <<fs, db, dry_run, root, pc, exc, file_paths, result, total_savings,
                   out, runs, faults, start, prev, twin, peer>>

\* Lines 115-118: as_completed yields a finished future, future.result()
\* returns or re-raises, lookup_hash.
NextResult(p) ==
    /\ pc = "running"
    /\ MainThreadFree
    /\ stage[p] \in {"hashed", "failed"}
    /\ IF stage[p] = "failed"
       THEN /\ pc' = "aborted"
            /\ exc' = "FileNotFoundError"
            /\ UNCHANGED <<stage, result>>
       ELSE /\ result' = [result EXCEPT ![p] = lookup_hash(db, hash[p])]
            /\ stage' = [stage EXCEPT ![p] = "looked"]
            /\ UNCHANGED <<pc, exc>>
    /\ UNCHANGED <<fs, db, dry_run, root, file_paths, hash, total_savings, out,
                   runs, faults, start, prev, twin, peer>>

\* Lines 119-124 and 128-137: the branch taken on the looked-up row.
Decide(p) ==
    /\ pc = "running"
    /\ stage[p] = "looked"
    /\ twin' = Iteration(twin, p, hash[p], ~dry_run)
    /\ LET res == result[p]
           b == Branch(res, p)
       IN  CASE b = "duplicate" ->
                  IF ~exists(fs, p)
                  THEN /\ pc' = "aborted"
                       /\ exc' = "FileNotFoundError"
                       /\ UNCHANGED <<db, stage, total_savings, out>>
                  ELSE /\ total_savings' = Accumulate(total_savings, getsize(fs, p))
                       /\ out' = Append(out, Msg(IF Live(dry_run) THEN "symlinking" ELSE "can_be_symlinked",
                                                 p, res[1].path, getsize(fs, p)))
                       /\ stage' = [stage EXCEPT ![p] = IF Live(dry_run) THEN "remove" ELSE "final"]
                       /\ UNCHANGED <<db, pc, exc>>
             [] b = "same" ->
                  /\ stage' = [stage EXCEPT ![p] = "final"]
                  /\ UNCHANGED <<db, pc, exc, total_savings, out>>
             [] OTHER ->
                  IF UniqueViolation(db, hash[p])
                  THEN /\ pc' = "aborted"
                       /\ exc' = "IntegrityError"
                       /\ UNCHANGED <<db, stage, total_savings, out>>
                  ELSE /\ db' = save_hash(db, p, hash[p])
                       /\ out' = Append(out, Msg("added", p, NoPath, 0))
                       /\ stage' = [stage EXCEPT ![p] = "final"]
                       /\ UNCHANGED <<pc, exc, total_savings>>
    /\ UNCHANGED <<fs, dry_run, root, file_paths, hash, result, runs, faults,
                   start, prev, peer>>

\* Line 126.
Remove(p) ==
    /\ pc = "running"
    /\ stage[p] = "remove"
    /\ IF fs[FileOf(p)].kind = "none"
       THEN /\ pc' = "aborted"
            /\ exc' = "FileNotFoundError"
            /\ UNCHANGED <<fs, stage>>
       ELSE /\ fs' = os_remove(fs, p)
            /\ stage' = [stage EXCEPT ![p] = "symlink"]
            /\ UNCHANGED <<pc, exc>>
    /\ UNCHANGED <<db, dry_run, root, file_paths, hash, result, total_savings, out,
                   runs, faults, start, prev, twin, peer>>

\* Line 127.
Symlink(p) ==
    /\ pc = "running"
    /\ stage[p] = "symlink"
    /\ IF fs[FileOf(p)].kind # "none"
       THEN /\ pc' = "aborted"
            /\ exc' = "FileExistsError"
            /\ UNCHANGED <<fs, stage>>
       ELSE /\ fs' = os_symlink(fs, result[p][1].path, p)
            /\ stage' = [stage EXCEPT ![p] = "final"]
            /\ UNCHANGED <<pc, exc>>
    /\ UNCHANGED <<db, dry_run, root, file_paths, hash, result, total_savings, out,
                   runs, faults, start, prev, twin, peer>>

\* Lines 139-144: the loop is exhausted; print the total, close the database.
Finish ==
    /\ pc = "running"
    /\ \A p \in file_paths : stage[p] = "final"
    /\ out' = Append(out, Msg(IF dry_run THEN "total_possible" ELSE "saved",
                              NoPath, NoPath, total_savings))
    /\ pc' = "done"
    /\ UNCHANGED <<fs, db, dry_run, root, exc, file_paths, stage, hash, result,
                   total_savings, runs, faults, start, prev, twin, peer>>

(* --------------------------- the environment --------------------------- *)

\* The process is interrupted or killed while process_files runs: no further
\* line of it executes. The rows save_hash committed stay in the database file.
Interrupt ==
    /\ pc = "running"
    /\ pc' = "killed"
    /\ UNCHANGED <<fs, db, dry_run, root, exc, file_paths, stage, hash, result,
                   total_savings, out, runs, faults, start, prev, twin, peer>>

\* Something else deletes a file of the directory.
ExtRemove(f) ==
    /\ pc # "idle"
    /\ faults < MaxFaults
    /\ fs[f].kind # "none"
    /\ fs' = [fs EXCEPT ![f] = Absent]
    /\ faults' = faults + 1
    /\ UNCHANGED <<db, dry_run, root, pc, exc, file_paths, stage, hash, result,
                   total_savings, out, runs, start, prev, twin, peer>>

\* Something else creates or rewrites a file of the directory.
ExtWrite(f, c) ==
    /\ pc # "idle"
    /\ faults < MaxFaults
    /\ fs[f] # File(c)
    /\ fs' = [fs EXCEPT ![f] = File(c)]
    /\ faults' = faults + 1
    /\ UNCHANGED <<db, dry_run, root, pc, exc, file_paths, stage, hash, result,
                   total_savings, out, runs, start, prev, twin, peer>>

\* Another invocation of the program on the same index: its lines 116-118 for
\* a file it hashed, finding no row ...
PeerLookup(f) ==
    /\ Cardinality(peer) < MaxPeer
    /\ exists(fs, join("/abs", f))
    /\ ~islink(fs, join("/abs", f))
    /\ getsize(fs, join("/abs", f)) # 0
    /\ lookup_hash(db, hexdigest(fs[f].content)) = <<>>
    /\ peer' = peer \cup {<<join("/abs", f), hexdigest(fs[f].content)>>}
    /\ UNCHANGED <<fs, db, dry_run, root, pc, exc, file_paths, stage, hash, result,
                   total_savings, out, runs, faults, start, prev, twin>>

\* ... and its line 136 later: the INSERT is refused when the digest has a row
\* by then.
PeerInsert(x) ==
    /\ x \in peer
    /\ peer' = peer \ {x}
    /\ db' = IF UniqueViolation(db, x[2]) THEN db ELSE save_hash(db, x[1], x[2])
    /\ UNCHANGED <<fs, dry_run, root, pc, exc, file_paths, stage, hash, result,
                   total_savings, out, runs, faults, start, prev, twin>>

(* --------------------------- specifications ---------------------------- *)

InitEntries(f) ==
    IF f = Other THEN {File(<<1>>)}
    ELSE IF f = <<"a", ".bin">> THEN {File(c) : c \in InitContents}
    ELSE {File(c) : c \in InitContents \cup {<<>>}} \cup {Link(join("/abs", <<"a", ".bin">>))}

InitDirs == {d \in [Files -> UNION {InitEntries(f) : f \in Files}] :
                \A f \in Files : d[f] \in InitEntries(f)}

Init ==
    /\ fs \in InitDirs
    /\ db = <<>>
    /\ dry_run = FALSE
    /\ root = ""
    /\ pc = "idle"
    /\ exc = ""
    /\ file_paths = {}
    /\ stage = <<>>
    /\ hash = <<>>
    /\ result = <<>>
    /\ total_savings = 0
    /\ out = <<>>
    /\ runs = 0
    /\ faults = 0
    /\ start = [db |-> <<>>, fs |-> fs]
    /\ prev = [pc |-> "idle", dry |-> FALSE, root |-> "", pairs |-> {}, total |-> 0]
    /\ twin = [db |-> <<>>, fs |-> fs, total |-> 0]
    /\ peer = {}

Program ==
    \/ \E flag \in BOOLEAN, directory \in Roots : StartRun(flag, directory)
    \/ \E p \in file_paths : calculate_file_hash(p)
    \/ \E p \in file_paths : NextResult(p)
    \/ \E p \in file_paths : Decide(p)
    \/ \E p \in file_paths : Remove(p)
    \/ \E p \in file_paths : Symlink(p)
    \/ Finish

Next == Program

\* The program alone: nothing else touches the directory or the index.
Spec == Init /\ [][Next]_vars

NextEnv ==
    \/ Program
    \/ \E f \in Candidates : ExtRemove(f)
    \/ \E f \in Candidates, c \in InitContents : ExtWrite(f, c)

\* The program in a directory that something else changes too.
SpecEnv == Init /\ [][NextEnv]_vars

NextKill ==
    \/ Program
    \/ Interrupt

\* The program, interrupted at any point of a run and started again.
SpecKill == Init /\ [][NextKill]_vars

NextShared ==
    \/ Program
    \/ \E f \in Candidates : PeerLookup(f)
    \/ \E x \in peer : PeerInsert(x)

\* The program with another invocation writing to the same index.
SpecShared == Init /\ [][NextShared]_vars

(* ------------------------------ claims --------------------------------- *)

Group(p) == {q \in file_paths : hash[q] = hash[p]}
NewRows == {i \in DOMAIN db : i > Len(start.db)}
InCritical == {p \in file_paths : stage[p] \in Critical}
Reported(q, c) ==
    \E k \in DOMAIN out :
        /\ out[k].kind \in {"symlinking", "can_be_symlinked"}
        /\ out[k].path = q
        /\ out[k].target = c

\* C1: after a live run that began with an empty index, in a directory nothing
\* else touches, every group of enumerated files of one content has one path
\* that is still its regular file and all its other paths are symbolic links
\* whose target is that path, whatever the order the hashes completed in.
C1_OneSurvivorPerContent ==
    (pc = "done" /\ ~dry_run /\ start.db = <<>>) =>
        \A p \in file_paths :
            \E c \in Group(p) :
                /\ fs[FileOf(c)] = start.fs[FileOf(c)]
                /\ fs[FileOf(c)].kind = "file"
                /\ \A q \in Group(p) \ {c} : fs[FileOf(q)] = Link(c)

C1_Witness ==
    /\ pc = "done" /\ ~dry_run /\ start.db = <<>>
    /\ \E p \in file_paths : Cardinality(Group(p)) = 3
    /\ Cardinality({f \in Candidates : fs[f].kind = "link"}) = 2

\* C2: the index never holds two rows with the same digest, through dry and
\* live runs on one index, any completion order, and with another invocation
\* inserting into the same index.
C2_DigestUnique ==
    \A i, j \in DOMAIN db : db[i].sha256 = db[j].sha256 => i = j

C2_Witness ==
    /\ runs = 2 /\ pc = "done" /\ prev.pc = "done" /\ prev.dry # dry_run
    /\ Len(db) = 2
    /\ \E p \in file_paths : Cardinality(Group(p)) >= 2

\* C3: a dry run leaves every file as it was when the run began, and its index
\* is the index a live run from the same state and the same order of results
\* has.
C3_DryRunOnlyIndexes ==
    (pc # "idle" /\ dry_run) => (fs = start.fs /\ db = twin.db)

C3_Witness ==
    /\ pc = "done" /\ dry_run
    /\ Len(db) > Len(start.db)
    /\ twin.fs # start.fs
    /\ \E p, q \in file_paths : Reported(p, q)

\* C4: a live run that follows a completed live run over the same root, with
\* nothing else changing the directory, inserts no row, changes no file and
\* reports a total of zero.
C4_SecondLiveRunIsNoOp ==
    (/\ pc \in {"running", "done"} /\ ~dry_run
     /\ prev.pc = "done" /\ ~prev.dry /\ prev.root = root) =>
        /\ db = start.db
        /\ fs = start.fs
        /\ total_savings = 0
        /\ \A k \in DOMAIN out : out[k] = Msg("saved", NoPath, NoPath, 0)

C4_Witness ==
    /\ pc = "done" /\ ~dry_run
    /\ prev.pc = "done" /\ ~prev.dry /\ prev.root = root
    /\ file_paths # {}
    /\ \E f \in Candidates, g \in Candidates : f # g /\ fs[f] = Link(join(root, g))
    /\ Len(out) = 1

\* C5: of two enumerated files of one content whose digest had no row when the
\* run began, a completed run has inserted exactly one as the row of the digest
\* and reported the other as its duplicate (and linked it, live); no run ends
\* on a refused insert.
C5_OneOfTwoBecomesCanonical ==
    /\ exc # "IntegrityError"
    /\ pc = "done" =>
        \A p \in file_paths :
            (Cardinality(Group(p)) >= 2 /\ hash[p] \notin Digests(start.db)) =>
                /\ Cardinality({i \in DOMAIN db : db[i].sha256 = hash[p]}) = 1
                /\ \E i \in NewRows :
                    /\ db[i].sha256 = hash[p]
                    /\ db[i].path \in Group(p)
                    /\ ~\E c \in file_paths : Reported(db[i].path, c)
                    /\ \A q \in Group(p) \ {db[i].path} :
                        /\ Reported(q, db[i].path)
                        /\ ~dry_run => fs[FileOf(q)] = Link(db[i].path)

C5_Witness ==
    /\ pc = "done" /\ ~dry_run
    /\ \E p, q \in file_paths :
        /\ p # q /\ hash[p] = hash[q] /\ hash[p] \notin Digests(start.db)
        /\ fs[FileOf(q)] = Link(p)
        /\ \E i \in NewRows : db[i].path = p

\* C6: at most one result is between its lookup and the end of its insert or
\* link, and while one is, no other result is looked up, inserted, removed or
\* linked: the other paths only get hashed, and the index and the files change
\* only by a step of that result.
C6_AtMostOneInside == Cardinality(InCritical) <= 1

C6_NothingInterleaved ==
    \A p \in file_paths :
        (pc = "running" /\ stage[p] \in Critical) =>
            /\ file_paths' = file_paths
            /\ \A q \in file_paths \ {p} : stage'[q] # stage[q] => stage[q] = "queued"
            /\ (db' # db \/ fs' # fs) => stage'[p] # stage[p]

C6_CommitIsCriticalSection == [](C6_AtMostOneInside) /\ [][C6_NothingInterleaved]_vars

C6_Witness ==
    /\ pc = "running"
    /\ \E p, q \in file_paths :
        /\ stage[p] = "symlink"
        /\ stage[q] = "hashed"

\* C7: a file that is a symbolic link or has length zero when the run scans is
\* not among the paths of the run, is left as it is, and gets no row.
C7_LinksAndEmptyFilesSkipped ==
    pc # "idle" =>
        \A f \in Files :
            (\/ start.fs[f].kind = "link"
             \/ (start.fs[f].kind = "file" /\ start.fs[f].content = <<>>)) =>
                /\ \A d \in Roots : join(d, f) \notin file_paths
                /\ fs[f] = start.fs[f]
                /\ \A i \in NewRows : FileOf(db[i].path) # f

C7_Witness ==
    /\ pc = "done" /\ ~dry_run
    /\ \E f, g \in Candidates :
        /\ start.fs[f].kind = "link"
        /\ start.fs[g] = File(<<>>)
    /\ NewRows # {}

\* C8 as stated: when the enumerated files all differ in content, a completed
\* run has changed no file and has inserted a row for every enumerated file.
AllDistinct == \A p \in file_paths : Group(p) = {p}
Registered(p) == \E i \in NewRows : db[i].path = p /\ db[i].sha256 = hash[p]

C8_Original ==
    (pc = "done" /\ AllDistinct) =>
        (fs = start.fs /\ \A p \in file_paths : Registered(p))

\* C8 amended: ... and the index has no row for any of their digests when the
\* run begins.
C8_DistinctNewFilesAllRegistered ==
    (/\ pc = "done" /\ AllDistinct
     /\ \A p \in file_paths : hash[p] \notin Digests(start.db)) =>
        (fs = start.fs /\ \A p \in file_paths : Registered(p))

C8_Witness ==
    /\ pc = "done" /\ ~dry_run /\ AllDistinct
    /\ Cardinality(file_paths) = 2
    /\ \A p \in file_paths : hash[p] \notin Digests(start.db) /\ Registered(p)

\* C9: a failed hash of one file does not end the run: the run is never found
\* aborted on the failed future.
C9_HashFailureIsSkipped ==
    ~(/\ pc = "aborted"
      /\ InCritical = {}
      /\ \E p \in file_paths : stage[p] = "failed")

\* C10: a failed removal or a failed link creation does not end the run: the
\* run is never found aborted at os.remove or os.symlink.
C10_LinkFailureDoesNotAbort ==
    ~(/\ pc = "aborted"
      /\ \E p \in file_paths : stage[p] \in {"remove", "symlink"})

\* C11: a run interrupted at any point has left the index as it was at the
\* start plus one row per 'Added' line printed, and every path it reported as
\* a duplicate is either the file it was or a link to its canonical path.
C11_InterruptedRunIsSafe ==
    pc = "killed" =>
        /\ \A i \in DOMAIN start.db : i \in DOMAIN db /\ db[i] = start.db[i]
        /\ {db[i].path : i \in NewRows} =
               {out[k].path : k \in {j \in DOMAIN out : out[j].kind = "added"}}
        /\ \A pr \in Pairs(out) :
               \/ fs[FileOf(pr[1])] = start.fs[FileOf(pr[1])]
               \/ fs[FileOf(pr[1])] = Link(pr[2])

\* C12: when a live run has removed a path and is about to link it to the
\* recorded path, the recorded path is a regular file whose digest is the
\* digest of the removed file.
C12_LinkTargetHoldsContent ==
    \A p \in file_paths :
        (pc = "running" /\ stage[p] = "symlink") =>
            LET c == result[p][1].path
            IN  /\ fs[FileOf(c)].kind = "file"
                /\ hexdigest(fs[FileOf(c)].content) = hash[p]

\* C13: the file a row of the index records is never removed or linked on a
\* re-scan, however the root is spelled: no path is removed to be linked to
\* the file it names, and no file is a link to itself.
C13_CanonicalNeverLinkedToItself ==
    /\ \A p \in file_paths :
           stage[p] \in {"remove", "symlink"} => FileOf(result[p][1].path) # FileOf(p)
    /\ \A f \in Candidates : ~(fs[f].kind = "link" /\ FileOf(fs[f].target) = f)

\* C14: os.remove is reached only for a path that is still there, and it
\* removes only a path that is still the file the scan saw: a path something
\* else replaced since is left alone.
C14_RemoveFindsPath ==
    ~(pc = "aborted" /\ \E p \in file_paths : stage[p] = "remove")

C14_RemoveLeavesReplaced ==
    \A p \in file_paths :
        (/\ pc = "running" /\ stage[p] = "remove"
         /\ fs'[FileOf(p)] = Absent /\ fs[FileOf(p)] # Absent) =>
            fs[FileOf(p)] = start.fs[FileOf(p)]

C14_VerifiesBeforeRemoval == [](C14_RemoveFindsPath) /\ [][C14_RemoveLeavesReplaced]_vars

SymlinkingLine(p, c) ==
    \E k \in DOMAIN out :
        out[k] = Msg("symlinking", p, c, Len(start.fs[FileOf(p)].content))

RowPath(rows, h) == {rows[i].path : i \in {j \in DOMAIN rows : rows[j].sha256 = h}}
LookedUp(p) == stage[p] \in Critical \cup {"final"}
Lines(kinds) == {k \in DOMAIN out : out[k].kind \in kinds}

C16_PriorRowWins ==
    \A p \in file_paths :
        (LookedUp(p) /\ hash[p] \in Digests(start.db)) =>
            /\ result[p] # <<>>
            /\ RowPath(start.db, hash[p]) = {result[p][1].path}
            /\ \A k \in Lines({"added"}) : out[k].path # p

C16_FirstCommittedWins ==
    /\ \A k \in Lines({"added"}) :
        /\ hash[out[k].path] \notin Digests(start.db)
        /\ RowPath(db, hash[out[k].path]) = {out[k].path}
        /\ \A j \in DOMAIN out :
               (j < k /\ out[j].path \in file_paths) => hash[out[j].path] # hash[out[k].path]
    /\ \A k \in Lines({"symlinking", "can_be_symlinked"}) :
        /\ RowPath(db, hash[out[k].path]) = {out[k].target}
        /\ \/ RowPath(start.db, hash[out[k].path]) = {out[k].target}
           \/ \E j \in Lines({"added"}) : j < k /\ out[j].path = out[k].target

C16_RowKept ==
    \A h \in Digests(db) : RowPath(db', h) = RowPath(db, h)

C16_FirstSeenWins ==
    /\ [](C16_PriorRowWins /\ C16_FirstCommittedWins)
    /\ [][C16_RowKept]_vars

C16_Witness ==
    /\ pc = "done" /\ prev.pc = "killed"
    /\ NewRows # {}
    /\ \E pr \in Pairs(out) : RowPath(start.db, hash[pr[1]]) = {pr[2]}
    /\ \E pr \in Pairs(out) : \E i \in NewRows : db[i].path = pr[2]

\* C17: the index is append-only and durable. No step changes or drops a row
\* that is there, through interruptions and later runs; row ids are never
\* reused; and every insert that returned (its 'Added' line is printed) has
\* its row in the index.
C17_RowsKept ==
    \A i \in DOMAIN db : i \in DOMAIN db' /\ db'[i] = db[i]

C17_Inserted ==
    /\ \A i \in DOMAIN db : db[i].id = i
    /\ \A k \in Lines({"added"}) :
        \E i \in NewRows :
            /\ db[i].path = out[k].path
            /\ db[i].sha256 = hash[out[k].path]
            /\ db[i].filename = basename(out[k].path)

C17_AppendOnlyDurable == [](C17_Inserted) /\ [][C17_RowsKept]_vars

C17_Witness ==
    /\ pc = "killed" /\ prev.pc = "killed"
    /\ Len(start.db) >= 1
    /\ NewRows # {}
    /\ \A i \in DOMAIN start.db : db[i] = start.db[i]

\* C18: the total of a run is, at every point of the run, the sum of the
\* sizes of the enumerated files it has reported as duplicates so far (zero
\* when the run begins, whatever the run before it saved); the total printed
\* at the end is that sum, and in a live run it is the sum of the sizes of the
\* files the run replaced by links.
RECURSIVE SumSizes(_, _)
SumSizes(dir, S) ==
    IF S = {} THEN 0
    ELSE LET f == CHOOSE g \in S : TRUE
         IN  Len(dir[f].content) + SumSizes(dir, S \ {f})

DecidedDuplicates == {FileOf(pr[1]) : pr \in Pairs(out)}
ReplacedByLinks == {f \in Files : fs[f].kind = "link" /\ fs[f] # start.fs[f]}

C18_TotalIsSumOfDuplicates ==
    pc \in {"running", "done"} =>
        /\ DecidedDuplicates \subseteq {FileOf(p) : p \in file_paths}
        /\ total_savings = SumSizes(start.fs, DecidedDuplicates)
        /\ pc = "done" =>
            /\ out[Len(out)] = Msg(IF dry_run THEN "total_possible" ELSE "saved",
                                   NoPath, NoPath, SumSizes(start.fs, DecidedDuplicates))
            /\ ~dry_run => out[Len(out)].bytes = SumSizes(start.fs, ReplacedByLinks)

C18_Witness ==
    /\ runs = 2 /\ pc = "done" /\ ~dry_run
    /\ prev.pc = "done" /\ prev.total = 4
    /\ Cardinality(ReplacedByLinks) = 2
    /\ out[Len(out)] = Msg("saved", NoPath, NoPath, 4)

\* C19: a dry run predicts the live run. The (duplicate, canonical) pairs a
\* completed dry run printed are the links the same results make when
\* processed live from the same state, with the same total; and a live run
\* that follows the dry run over the same root, in the unchanged directory,
\* creates exactly those links and prints the same total.
TwinLinks ==
    {<<p, twin.fs[FileOf(p)].target>> :
        p \in {q \in file_paths : /\ twin.fs[FileOf(q)] # start.fs[FileOf(q)]
                                  /\ twin.fs[FileOf(q)].kind = "link"}}
LinksCreated == {<<join(root, f), fs[f].target>> : f \in ReplacedByLinks}

====
